---- MODULE Spec2Model ----
(***************************************************************************)
(* Particle wave animation (src/index.ts).                                 *)
(*                                                                         *)
(* Numbers.  JavaScript numbers are modelled as exact rationals <<n, d>>   *)
(* in lowest terms with d > 0; <<0, 0>> stands for NaN (the only non-finite*)
(* value the kinematics can produce: x % 0).  Clock values, durations and  *)
(* the other sampled parameters are integers (milliseconds, units).        *)
(* Math.sin is not computable over the rationals: y is kept as the term    *)
(*   -sin(sinArg) * amplitude + offsetY                                    *)
(* i.e. the record of its three operands, so equal operands give equal y.  *)
(***************************************************************************)
EXTENDS Integers, Sequences, FiniteSets

\* ------------------------------------------------------------------ bounds
\* Number of particles pushed by startAnimation (3000 in the source, scaled).
NUM_PARTICLES == 2
\* The clock (performance.now) advances in steps of ClockStep, MaxTicks times.
MaxTicks == 2
\* The kinematic sweep evaluates progress = k / SweepDen.
SweepDen == 60

\* ------------------------------------------------------- program constants
SPEED == 20000

ClockStep == SPEED \div 2
MaxTime == MaxTicks * ClockStep

\* ------------------------------------------------------------- arithmetic
AbsInt(n) == IF n < 0 THEN -n ELSE n

RECURSIVE GCD(_, _)
GCD(a, b) == IF b = 0 THEN a ELSE GCD(b, a % b)

NaN == <<0, 0>>

IsNaN(r) == r[2] = 0

\* n / d as a number in lowest terms (d # 0).
Rat(n, d) ==
    LET g == GCD(AbsInt(n), AbsInt(d))
        s == IF d < 0 THEN -1 ELSE 1
    IN  <<(s * n) \div g, (s * d) \div g>>

RInt(n) == <<n, 1>>

RSub(a, b) ==
    IF IsNaN(a) \/ IsNaN(b) THEN NaN
    ELSE Rat(a[1] * b[2] - b[1] * a[2], a[2] * b[2])

RMul(a, b) ==
    IF IsNaN(a) \/ IsNaN(b) THEN NaN
    ELSE Rat(a[1] * b[1], a[2] * b[2])

\* a / n for an integer n; only NaN / 0 occurs with n = 0 (x % 0 is NaN).
RDivInt(a, n) ==
    IF IsNaN(a) \/ n = 0 THEN NaN
    ELSE Rat(a[1], a[2] * n)

RAbs(a) == IF IsNaN(a) THEN NaN ELSE <<AbsInt(a[1]), a[2]>>

\* a / b < c / d for b, d > 0, by integer parts and then the reciprocals of
\* the fractional parts (no product of the operands is formed).
RECURSIVE FracLess(_, _, _, _)
FracLess(a, b, c, d) ==
    LET qa == a \div b
        qc == c \div d
        ra == a % b
        rc == c % d
    IN  IF qa # qc THEN qa < qc
        ELSE IF rc = 0 THEN FALSE
        ELSE IF ra = 0 THEN TRUE
        ELSE FracLess(d, rc, b, ra)

\* Comparisons with NaN are false, as in JavaScript.
RLess(a, b) == ~IsNaN(a) /\ ~IsNaN(b) /\ FracLess(a[1], a[2], b[1], b[2])

RLeq(a, b) == ~IsNaN(a) /\ ~IsNaN(b) /\ (a = b \/ FracLess(a[1], a[2], b[1], b[2]))

\* The JavaScript remainder a % b: truncated, the result has the sign of the
\* dividend a; NaN when b = 0.
JsRem(a, b) ==
    IF b = 0 THEN NaN
    ELSE IF a < 0 THEN RInt(-(AbsInt(a) % AbsInt(b)))
    ELSE RInt(a % AbsInt(b))

\* ------------------------------------------------------------- kinematics
\* line 67: the remainder taken by moveParticle.
Elapsed(particle, t) == JsRem(t - particle.startTime, particle.duration)

\* line 67
Progress(particle, t) ==
    RSub(RInt(1), RDivInt(Elapsed(particle, t), particle.duration))

\* line 68 (XOfMirrored: the sweep reversed)
XOfMirrored(progress) == RSub(RInt(150), RMul(progress, RInt(300)))

XOf(progress) == RSub(RMul(progress, RInt(300)), RInt(150))

\* lines 71-73 (ShrinkFactorClamped: the taper floored at 0)
ShrinkFactorClamped(x) ==
    LET distanceFromCenter == RAbs(x)
        maxDistance == 90
        q == RDivInt(distanceFromCenter, maxDistance)
        s == RSub(RInt(1), RMul(q, q))
    IN  IF RLess(s, RInt(0)) THEN RInt(0) ELSE s

ShrinkFactor(x) ==
    LET distanceFromCenter == RAbs(x)
        maxDistance == 90
        q == RDivInt(distanceFromCenter, maxDistance)
    IN  RSub(RInt(1), RMul(q, q))

\* lines 76-79: y = -sin(progress * arc) * amplitude + offsetY, as its operands.
YOf(particle, progress, shrinkFactor) ==
    [sinArg    |-> RMul(progress, particle.arc),
     amplitude |-> RMul(RInt(particle.amplitude), shrinkFactor),
     offsetY   |-> RMul(RInt(particle.offsetY), shrinkFactor)]

\* new THREE.Mesh(...): an Object3D starts at position (0, 0, 0).
NewGeometry ==
    [position |-> [x |-> RInt(0),
                   y |-> [sinArg |-> RInt(0), amplitude |-> RInt(0), offsetY |-> RInt(0)],
                   z |-> 0]]

\* lines 66-81 (MoveParticleDrift: the depth is advanced and written back)
MoveParticleDrift(particle, t) ==
    LET progress == Progress(particle, t)
        x == XOf(progress)
        shrinkFactor == ShrinkFactor(x)
        y == YOf(particle, progress, shrinkFactor)
    IN  [particle EXCEPT !.z = particle.z + 1,
                         !.geometry.position = [x |-> x, y |-> y, z |-> particle.z + 1]]

MoveParticle(particle, t) ==
    LET progress == Progress(particle, t)
        x == XOf(progress)
        shrinkFactor == ShrinkFactor(x)
        y == YOf(particle, progress, shrinkFactor)
    IN  [particle EXCEPT !.geometry.position = [x |-> x, y |-> y, z |-> particle.z]]

\* ---------------------------------------------------------------- factory
\* Values drawn from randomNormal for one particle (lines 55-58, 60): the mean,
\* one deviation below it, and a value from the tail of the normal
\* distribution, whose support is unbounded (11.5 deviations below the mean
\* of the duration).
ParamSamples ==
    { [duration |-> SPEED, amplitude |-> 25, offsetY |-> 0,
       arc |-> Rat(6283, 1000), z |-> 0],
      [duration |-> SPEED - SPEED \div 10, amplitude |-> 24, offsetY |-> -12,
       arc |-> Rat(6183, 1000), z |-> 8],
      [duration |-> SPEED - 23 * (SPEED \div 20), amplitude |-> 26, offsetY |-> 12,
       arc |-> Rat(6383, 1000), z |-> -8] }

\* Values of rand(0, SPEED) (lines 35-37): Math.random() is in [0, 1).
RandSamples == {0, SPEED \div 2}

\* lines 40-63
CreateParticle(sample, r, clock) ==
    [duration  |-> sample.duration,
     amplitude |-> sample.amplitude,
     offsetY   |-> sample.offsetY,
     arc       |-> sample.arc,
     startTime |-> clock - r,
     z         |-> sample.z,
     geometry  |-> NewGeometry]

\* ------------------------------------------------------------------ state
VARIABLES
    readyState,     \* document.readyState when the script runs
    dclFired,       \* the document's DOMContentLoaded event has been dispatched
    listener,       \* the DOMContentLoaded listener of line 145 is registered
    pc,             \* where the main thread is
    particles,      \* the module-level particle list (line 32)
    i,              \* the loop index of startAnimation (line 132)
    now,            \* performance.now()
    lastCreateNow,  \* the clock value read by the latest createParticle (line 59)
    pendingFrames,  \* callbacks queued by requestAnimationFrame, not yet run
    lastFrameTime,  \* the timestamp the scheduler gave the previous callback
    time,           \* draw's parameter: this tick's timestamp
    rendered,       \* the positions renderer.render last drew (line 88)
    probe           \* one evaluation of lines 67-73 at a given progress

vars == <<readyState, dclFired, listener, pc, particles, i, now, lastCreateNow,
          pendingFrames, lastFrameTime, time, rendered, probe>>

\* The derived position of every particle.
Positions(ps) == [k \in 1..Len(ps) |-> ps[k].geometry.position]

\* Every field but the derived position.
Params(p) == [duration |-> p.duration, amplitude |-> p.amplitude,
              offsetY |-> p.offsetY, arc |-> p.arc,
              startTime |-> p.startTime, z |-> p.z]

\* lines 67-73 evaluated at progress = k / SweepDen.
ProbeAt(k) ==
    LET progress == Rat(k, SweepDen)
        x == XOf(progress)
    IN  [progress |-> progress, x |-> x, shrinkFactor |-> ShrinkFactor(x)]

Init ==
    /\ readyState \in {"loading", "interactive", "complete"}
    /\ dclFired = (readyState = "complete")
    /\ listener = FALSE
    /\ pc = "script"
    /\ particles = <<>>
    /\ i = 0
    /\ now = 0
    /\ lastCreateNow = 0
    /\ pendingFrames = 0
    /\ lastFrameTime = 0
    /\ time = 0
    /\ rendered = <<>>
    /\ probe = ProbeAt(SweepDen \div 2)

\* ---------------------------------------------------------------- actions
\* The clock advances.  It is read by createParticle only (line 59) and bounds
\* the scheduler's timestamps, so advancing it inside the creation loop and
\* between tasks covers every value either can see.
ClockAdvance ==
    /\ pc \in {"creating", "idle"}
    /\ now + ClockStep <= MaxTime
    /\ now' = now + ClockStep
    /\ UNCHANGED <<readyState, dclFired, listener, pc, particles, i, lastCreateNow,
                   pendingFrames, lastFrameTime, time, rendered, probe>>

\* lines 128-130: startAnimation up to its loop (initializeCanvas is the
\* rendering collaborator's setup).
BeginStartAnimation ==
    /\ pc' = "creating"
    /\ i' = 0

\* lines 141-149 (BootstrapNoElse: the listener is registered and
\* startAnimation is called, whatever readyState is)
BootstrapNoElse ==
    /\ pc = "script"
    /\ listener' = TRUE
    /\ BeginStartAnimation
    /\ UNCHANGED <<readyState, dclFired, particles, now, lastCreateNow,
                   pendingFrames, lastFrameTime, time, rendered, probe>>

Bootstrap ==
    /\ pc = "script"
    /\ IF readyState # "loading"
         THEN BeginStartAnimation /\ UNCHANGED listener
         ELSE pc' = "waiting" /\ listener' = TRUE /\ UNCHANGED i
    /\ UNCHANGED <<readyState, dclFired, particles, now, lastCreateNow,
                   pendingFrames, lastFrameTime, time, rendered, probe>>

\* The browser dispatches DOMContentLoaded once per document, between tasks;
\* lines 145-147 run if the listener is registered.
DOMContentLoaded ==
    /\ ~dclFired
    /\ pc \in {"waiting", "idle"}
    /\ dclFired' = TRUE
    /\ readyState' = "interactive"
    /\ IF listener
         THEN BeginStartAnimation
         ELSE UNCHANGED <<pc, i>>
    /\ UNCHANGED <<listener, particles, now, lastCreateNow,
                   pendingFrames, lastFrameTime, time, rendered, probe>>

\* lines 132-134: one iteration of the creation loop.
CreateStep ==
    /\ pc = "creating"
    /\ i < NUM_PARTICLES
    /\ \E sample \in ParamSamples, r \in RandSamples :
         particles' = Append(particles, CreateParticle(sample, r, now))
    /\ lastCreateNow' = now
    /\ i' = i + 1
    /\ UNCHANGED <<readyState, dclFired, listener, pc, now,
                   pendingFrames, lastFrameTime, time, rendered, probe>>

\* line 137: the loop is over, the first frame is requested.
RequestFirst ==
    /\ pc = "creating"
    /\ ~(i < NUM_PARTICLES)
    /\ pendingFrames' = pendingFrames + 1
    /\ pc' = "idle"
    /\ UNCHANGED <<readyState, dclFired, listener, particles, i, now, lastCreateNow,
                   lastFrameTime, time, rendered, probe>>

\* The timestamps the scheduler may pass: non-decreasing from frame to frame
\* and not later than the clock.
FrameTimes == {t \in lastFrameTime..now : t % ClockStep = 0}

\* line 89 (the arrow function), line 84: the scheduler runs the queued
\* callback, which calls draw with the frame's timestamp.
FrameCallback ==
    /\ pc = "idle"
    /\ pendingFrames > 0
    /\ \E ts \in FrameTimes :
         /\ time' = ts
         /\ lastFrameTime' = ts
    /\ pendingFrames' = pendingFrames - 1
    /\ pc' = "draw"
    /\ UNCHANGED <<readyState, dclFired, listener, particles, i, now, lastCreateNow,
                   rendered, probe>>

\* lines 85-87: draw's loop over the whole list.
MoveAll ==
    /\ pc = "draw"
    /\ particles' = [k \in 1..Len(particles) |-> MoveParticle(particles[k], time)]
    /\ pc' = "moved"
    /\ UNCHANGED <<readyState, dclFired, listener, i, now, lastCreateNow,
                   pendingFrames, lastFrameTime, time, rendered, probe>>

\* line 88
Render ==
    /\ pc = "moved"
    /\ rendered' = Positions(particles)
    /\ pc' = "rendered"
    /\ UNCHANGED <<readyState, dclFired, listener, particles, i, now, lastCreateNow,
                   pendingFrames, lastFrameTime, time, probe>>

\* line 89 (RequestNextTwice: two callbacks requested per tick)
RequestNextTwice ==
    /\ pc = "rendered"
    /\ pendingFrames' = pendingFrames + 2
    /\ pc' = "idle"
    /\ UNCHANGED <<readyState, dclFired, listener, particles, i, now, lastCreateNow,
                   lastFrameTime, time, rendered, probe>>

RequestNext ==
    /\ pc = "rendered"
    /\ pendingFrames' = pendingFrames + 1
    /\ pc' = "idle"
    /\ UNCHANGED <<readyState, dclFired, listener, particles, i, now, lastCreateNow,
                   lastFrameTime, time, rendered, probe>>

Next ==
    \/ ClockAdvance
    \/ Bootstrap
    \/ DOMContentLoaded
    \/ CreateStep
    \/ RequestFirst
    \/ FrameCallback
    \/ MoveAll
    \/ Render
    \/ RequestNext

Spec == Init /\ [][Next]_vars

\* ------------------------------------------------- the evaluator on its own
\* moveParticle (lines 66-81) and its x / shrinkFactor formulas (lines 67-73)
\* applied to any particle the factory can return and any time.
ZeroDurationSample ==
    [duration |-> SPEED - 10 * (SPEED \div 10), amplitude |-> 25, offsetY |-> 12,
     arc |-> Rat(6283, 1000), z |-> 8]

ClockValues == {k * ClockStep : k \in 0..MaxTicks}

KinTimes == {k * (ClockStep \div 2) : k \in 0..(2 * MaxTicks)}

KinParticles ==
    {CreateParticle(sample, r, clock) :
        sample \in ParamSamples \cup {ZeroDurationSample},
        r \in RandSamples, clock \in ClockValues}

SweepRange == (-SweepDen)..(2 * SweepDen)

InitKin ==
    /\ readyState = "complete"
    /\ dclFired = TRUE
    /\ listener = FALSE
    /\ pc \in {"kin", "sweep"}
    /\ particles \in IF pc = "kin" THEN {<<p>> : p \in KinParticles} ELSE {<<>>}
    /\ i = 0
    /\ now = 0
    /\ lastCreateNow = 0
    /\ pendingFrames = 0
    /\ lastFrameTime = 0
    /\ time = 0
    /\ rendered = <<>>
    /\ probe = ProbeAt(SweepDen \div 2)

\* moveParticle(particle, t)
KinMove ==
    /\ pc \in {"kin", "kinMoved"}
    /\ \E t \in KinTimes :
         /\ time' = t
         /\ particles' = <<MoveParticle(particles[1], t)>>
    /\ pc' = "kinMoved"
    /\ UNCHANGED <<readyState, dclFired, listener, i, now, lastCreateNow,
                   pendingFrames, lastFrameTime, rendered, probe>>

\* lines 67-73 at one value of progress
KinSweep ==
    /\ pc = "sweep"
    /\ \E k \in SweepRange : probe' = ProbeAt(k)
    /\ UNCHANGED <<readyState, dclFired, listener, pc, particles, i, now, lastCreateNow,
                   pendingFrames, lastFrameTime, time, rendered>>

NextKin ==
    \/ KinMove
    \/ KinSweep

SpecKin == InitKin /\ [][NextKin]_vars

\* ----------------------------------------------------------------- claims
Moved == pc = "kinMoved"

\* C1: for a particle (duration > 0) moved at a time t with t - startTime < 0,
\* the elapsed value (t - startTime) mod duration lies in [0, duration).
C1_ElapsedInRange ==
    Moved =>
        LET p == particles[1]
            elapsed == Elapsed(p, time)
        IN  (p.duration > 0 /\ time - p.startTime < 0) =>
                /\ RLeq(RInt(0), elapsed)
                /\ RLess(elapsed, RInt(p.duration))

\* C2: moveParticle is periodic: for a particle with duration > 0 the
\* position written at time t equals the position written at t + duration.
C2_Periodic ==
    Moved =>
        LET p == particles[1]
        IN  p.duration > 0 =>
                p.geometry.position
                    = MoveParticle(p, time + p.duration).geometry.position

\* C3: for every particle (here: every particle with duration > 0) and every
\* time, progress lies in [0, 1] and the x coordinate written lies in
\* [-150, 150].
C3_ProgressAndXInSpan ==
    Moved =>
        LET p == particles[1]
            progress == Progress(p, time)
            x == p.geometry.position.x
        IN  p.duration > 0 =>
                /\ RLeq(RInt(0), progress) /\ RLeq(progress, RInt(1))
                /\ RLeq(RInt(-150), x) /\ RLeq(x, RInt(150))

\* C4 as stated: progress = 0 gives x = 150 and progress = 1 gives x = -150.
C4_EndpointsAsStated ==
    /\ probe.progress = RInt(0) => probe.x = RInt(150)
    /\ probe.progress = RInt(1) => probe.x = RInt(-150)

\* C4, amended: progress = 0 gives x = -150 and progress = 1 gives x = 150.
C4_Endpoints ==
    /\ probe.progress = RInt(0) => probe.x = RInt(-150)
    /\ probe.progress = RInt(1) => probe.x = RInt(150)

C4_Witness == probe.progress = RInt(0) /\ probe.x = RInt(-150)

\* C5: once startAnimation has finished the particle list holds exactly
\* NUM_PARTICLES particles, in every later state.
C5_ParticleCount ==
    pc \in {"idle", "draw", "moved", "rendered"} => Len(particles) = NUM_PARTICLES

C5_Witness ==
    /\ pc = "rendered"
    /\ dclFired
    /\ time > 0
    /\ Len(particles) = NUM_PARTICLES

\* C6: a step changes no particle's duration, amplitude, offsetY, arc,
\* startTime or z, and the z written by a frame tick is particle.z.
C6_OnlyPositionChanges ==
    [][ /\ \A k \in 1..Len(particles) :
             /\ k <= Len(particles')
             /\ Params(particles'[k]) = Params(particles[k])
        /\ pc' \in {"moved", "rendered", "idle"} =>
             \A k \in 1..Len(particles') :
                 \/ particles'[k].geometry = NewGeometry
                 \/ particles'[k].geometry.position.z = particles'[k].z ]_vars

C6_Witness ==
    /\ pc = "moved"
    /\ time > 0
    /\ \E k \in 1..Len(particles) :
         /\ particles[k].z # 0
         /\ particles[k].geometry.position.z = particles[k].z
         /\ particles[k].geometry.position.x # RInt(0)

\* C7: every particle createParticle returns has duration > 0.
C7_DurationPositive ==
    \A k \in 1..Len(particles) : particles[k].duration > 0

\* C8: shrinkFactor is 1 exactly when x = 0, strictly decreases as |x|
\* increases, is negative for |x| > 90, and is 1 - (150/90)^2 at x = 150.
C8_ShrinkFactor ==
    /\ (probe.shrinkFactor = RInt(1)) <=> (probe.x = RInt(0))
    /\ RLess(RInt(90), RAbs(probe.x)) => RLess(probe.shrinkFactor, RInt(0))
    /\ probe.x = RInt(150) => probe.shrinkFactor = Rat(-16, 9)
    /\ \A k \in SweepRange :
         LET other == ProbeAt(k)
         IN  RLess(RAbs(probe.x), RAbs(other.x)) =>
                 RLess(other.shrinkFactor, probe.shrinkFactor)

C8_Witness ==
    /\ probe.x = RInt(150)
    /\ probe.shrinkFactor = Rat(-16, 9)

\* C9: in a tick every particle is moved with the tick's timestamp before
\* the render, the next frame is requested only after the render, exactly one
\* callback is requested per tick, at most one is pending, and between ticks
\* one is always pending.
C9_FrameLoop ==
    LET movedNow == [k \in 1..Len(particles) |->
                        MoveParticle(particles[k], time).geometry.position]
    IN  /\ pendingFrames <= 1
        /\ pc \in {"draw", "moved", "rendered"} => pendingFrames = 0
        /\ pc = "moved" => Positions(particles) = movedNow
        /\ pc = "rendered" => rendered = movedNow
        /\ pc = "idle" => pendingFrames = 1

C9_Witness ==
    /\ pc = "idle"
    /\ pendingFrames = 1
    /\ time > 0
    /\ Len(rendered) = NUM_PARTICLES
    /\ rendered = Positions(particles)

\* C10: in a tick whose timestamp is not earlier than the clock value read at
\* creation, time - startTime >= 0 for every particle and progress is in (0, 1].
C10_OperandNonNegative ==
    (pc \in {"moved", "rendered"} /\ time >= lastCreateNow) =>
        \A k \in 1..Len(particles) :
            LET progress == Progress(particles[k], time)
            IN  /\ time - particles[k].startTime >= 0
                /\ RLess(RInt(0), progress)
                /\ RLeq(progress, RInt(1))

====
